---- MODULE Spec2Model ----
(***************************************************************************)
(* Model of src/src/Model.js (nedb-models): the active-record facade over  *)
(* a document store.  JavaScript values are tagged records; every scalar   *)
(* (identifier, title, option flag) is a string, so that mappings are      *)
(* functions from field names to strings.                                  *)
(***************************************************************************)
EXTENDS Integers, Sequences, FiniteSets, TLC

VARIABLES
    defaults,   \* what the model type's static defaults() returns
    store,      \* the collection's records, in insertion order
    nextId,     \* number of identifiers the storage engine has generated
    inst,       \* the fields of the model instance the calls are made on
    calls,      \* one frame per facade call, in call order
    used        \* the outcome of the last Model.use call

vars == <<defaults, store, nextId, inst, calls, used>>

(* ------------------------------ bounds --------------------------------- *)

MaxCalls == 3
MaxStaticCalls == 1
MaxExts == 3

Titles == {"a", "b"}

(* --------------------------- JavaScript values ------------------------- *)

EmptyMap == [k \in {} |-> "null"]

Undefined == [type |-> "undefined"]
NullV == [type |-> "null"]
Obj(m) == [type |-> "object", map |-> m]
Arr(s) == [type |-> "array", items |-> s]
Num(n) == [type |-> "number", n |-> n]
Instance(m) == [type |-> "instance", map |-> m]
SetOp(m) == [type |-> "$set", map |-> m]
ThisRef == [type |-> "this"]
EngineError == [type |-> "error"]

\* 'object' === typeof v && null !== v, for the values that reach assign / augment
IsMapping(v) == v.type \in {"object", "instance"}

Truthy(s) == s \notin {"", "0", "false", "null", "undefined"}

Put(m, k, v) == [x \in (DOMAIN m) \cup {k} |-> IF x = k THEN v ELSE m[x]]
Without(m, k) == [x \in (DOMAIN m) \ {k} |-> m[x]]

\* this._id as a condition
HasId(this) == "_id" \in DOMAIN this /\ Truthy(this["_id"])

(* ------------------------------ helpers -------------------------------- *)

\* helpers/augmenter: defaults merged with the call's overrides
Augment(d, o) ==
    IF IsMapping(o)
    THEN [k \in (DOMAIN d) \cup (DOMAIN o.map) |->
            IF k \in DOMAIN o.map /\ (k \notin DOMAIN d \/ o.map[k] \notin {"null", "undefined"})
            THEN o.map[k]
            ELSE d[k]]
    ELSE d

\* helpers/converter: a raw engine result turned into model instances
Convert(raw) ==
    CASE raw.type \in {"null", "undefined"} -> NullV
      [] raw.type = "object" -> Instance(raw.map)
      [] raw.type = "array" ->
            Arr([i \in DOMAIN raw.items |-> Instance(raw.items[i].map)])
      [] OTHER -> raw

(* ------------------------------ Model.js ------------------------------- *)

\* Model.defaults of the base class
BaseDefaults == [query |-> EmptyMap, projection |-> EmptyMap, values |-> EmptyMap]

\* a subclass overriding defaults(), as the documentation of Model.defaults describes
SubclassDefaults ==
    [query |-> "archived" :> "no", projection |-> EmptyMap, values |-> "archived" :> "no"]

\* Model.prototype.assign
Assign(this, values) ==
    LET v == IF IsMapping(values) THEN values.map ELSE EmptyMap
    IN  [k \in (DOMAIN this) \cup (DOMAIN v) |-> IF k \in DOMAIN v THEN v[k] ELSE this[k]]

\* Model.prototype.toPOJO
toPOJO(this) == [k \in DOMAIN this |-> this[k]]

\* a default parameter value: query = {}
DefaultParam(v, dflt) == IF v.type = "undefined" THEN dflt ELSE v

Request(op, query, projection, values, options) ==
    [op |-> op, query |-> query, projection |-> projection, values |-> values,
     options |-> options, cursor |-> Undefined]

\* Model.find: the cursor it returns, bound to the merged query and projection
ModelFind(d, query, projection) ==
    [Request("find", Obj(Augment(d.query, DefaultParam(query, Obj(EmptyMap)))),
             Obj(Augment(d.projection, projection)), Undefined, Undefined)
     EXCEPT !.cursor = [sort |-> "none", skip |-> 0, limit |-> 0]]

CursorExecRaw(raw) == raw

\* the exec that Model.find puts on the cursor: what it does with the awaited result
CursorExecResult(raw) == Convert(raw)

\* Model.findOne, up to the engine call
ModelFindOne(d, query, projection) ==
    Request("findOne", Obj(Augment(d.query, DefaultParam(query, Obj(EmptyMap)))),
            Obj(Augment(d.projection, projection)), Undefined, Undefined)

ModelCountUnmerged(d, query) ==
    Request("count", DefaultParam(query, Obj(EmptyMap)), Undefined, Undefined, Undefined)

\* Model.count, up to the engine call
ModelCount(d, query) ==
    Request("count", Obj(Augment(d.query, DefaultParam(query, Obj(EmptyMap)))),
            Undefined, Undefined, Undefined)

\* the static operations other than find: what they do with the awaited result
StaticResult(raw) == Convert(raw)

\* Model.insert, up to the engine call
ModelInsert(d, values) ==
    Request("insert", Undefined, Undefined,
            IF values.type = "array"
            THEN Arr([i \in DOMAIN values.items |-> Obj(Augment(d.values, values.items[i]))])
            ELSE Obj(Augment(d.values, values)),
            Undefined)

\* Model.update, up to the engine call
ModelUpdate(d, query, values, options) ==
    Request("update", DefaultParam(query, Obj(EmptyMap)), Undefined, values,
            Obj(Augment("multi" :> "true", options)))

ModelRemoveNoDefault(d, query, options) ==
    Request("remove", DefaultParam(query, Obj(EmptyMap)), Undefined, Undefined,
            DefaultParam(options, Obj(EmptyMap)))

\* Model.remove, up to the engine call
ModelRemove(d, query, options) ==
    Request("remove", DefaultParam(query, Obj(EmptyMap)), Undefined, Undefined,
            Obj(Augment("multi" :> "true", options)))

SaveRequestInsertOnly(d, this) == ModelInsert(d, Obj(toPOJO(this)))

\* Model.prototype.save: the call it awaits
SaveRequest(d, this) ==
    IF HasId(this)
    THEN ModelUpdate(d, Obj("_id" :> this["_id"]), SetOp(toPOJO(this)),
                     Obj("returnUpdatedDocs" :> "true"))
    ELSE ModelInsert(d, Obj(toPOJO(this)))

SaveAssignNothing(this, result) == this

\* Model.prototype.save: what it assigns once the call has resolved
SaveAssign(this, result) ==
    Assign(this,
           IF result.type = "array"
           THEN IF Len(result.items) > 0 THEN result.items[1] ELSE Undefined
           ELSE result)

RemoveRequestsUnguarded(d, this) ==
    <<ModelRemove(d, Obj(IF HasId(this) THEN "_id" :> this["_id"] ELSE EmptyMap),
                  Obj("multi" :> "false"))>>

\* Model.prototype.remove: the calls it makes (none without an identifier)
RemoveRequests(d, this) ==
    IF ~HasId(this)
    THEN <<>>
    ELSE <<ModelRemove(d, Obj("_id" :> this["_id"]), Obj("multi" :> "false"))>>

DuplicateValuesKeepId(this) == toPOJO(this)

\* Model.prototype.duplicate: the values it inserts
DuplicateValues(this) == Without(toPOJO(this), "_id")

(* --------------------------- storage engine ---------------------------- *)

Matches(rec, q) == \A k \in DOMAIN q : k \in DOMAIN rec /\ rec[k] = q[k]

RECURSIVE Select(_, _)
Select(s, q) ==
    IF s = <<>> THEN <<>>
    ELSE IF Matches(Head(s), q) THEN <<Head(s)>> \o Select(Tail(s), q)
    ELSE Select(Tail(s), q)

Ids(s) == {s[i]["_id"] : i \in DOMAIN s}

\* the records a multi / single operation acts on
Targets(s, q, multi) ==
    LET m == Select(s, q)
    IN  IF multi \/ m = <<>> THEN m ELSE <<m[1]>>

RECURSIVE InsertAll(_, _, _, _)
\* insert the documents docs[from..] one after the other
InsertAll(s, n, docs, from) ==
    IF from > Len(docs) THEN [store |-> s, nextId |-> n, out |-> <<>>, ok |-> TRUE]
    ELSE LET m == docs[from].map
             fresh == "_id" \notin DOMAIN m
             rec == IF fresh THEN Put(m, "_id", ToString(n + 1)) ELSE m
         IN  IF rec["_id"] \in Ids(s)
             THEN [store |-> s, nextId |-> n, out |-> <<>>, ok |-> FALSE]
             ELSE LET rest == InsertAll(Append(s, rec), IF fresh THEN n + 1 ELSE n,
                                        docs, from + 1)
                  IN  [rest EXCEPT !.out = <<Obj(rec)>> \o @]

EngineInsert(s, n, req) ==
    LET docs == IF req.values.type = "array" THEN req.values.items ELSE <<req.values>>
        r == InsertAll(s, n, docs, 1)
    IN  IF ~r.ok THEN [store |-> s, nextId |-> n, raw |-> EngineError]
        ELSE [store |-> r.store, nextId |-> r.nextId,
              raw |-> IF req.values.type = "array" THEN Arr(r.out) ELSE r.out[1]]

OptionOn(options, k) == k \in DOMAIN options.map /\ Truthy(options.map[k])

EngineUpdate(s, n, req) ==
    LET multi == OptionOn(req.options, "multi")
        hit == Ids(Targets(s, req.query.map, multi))
        new == [i \in DOMAIN s |->
                  IF s[i]["_id"] \in hit THEN Assign(s[i], Obj(req.values.map)) ELSE s[i]]
        out == LET RECURSIVE Pick(_)
                   Pick(i) == IF i > Len(new) THEN <<>>
                              ELSE IF new[i]["_id"] \in hit THEN <<Obj(new[i])>> \o Pick(i + 1)
                              ELSE Pick(i + 1)
               IN  Pick(1)
    IN  [store |-> new, nextId |-> n,
         raw |-> IF OptionOn(req.options, "returnUpdatedDocs")
                 THEN IF multi THEN Arr(out)
                      ELSE IF out = <<>> THEN Undefined ELSE out[1]
                 ELSE Num(Cardinality(hit))]

EngineRemove(s, n, req) ==
    LET hit == Ids(Targets(s, req.query.map, OptionOn(req.options, "multi")))
        RECURSIVE Keep(_)
        Keep(t) == IF t = <<>> THEN <<>>
                   ELSE IF Head(t)["_id"] \in hit THEN Keep(Tail(t))
                   ELSE <<Head(t)>> \o Keep(Tail(t))
    IN  [store |-> Keep(s), nextId |-> n, raw |-> Num(Cardinality(hit))]

\* the order the cursor's sort({title: 1 | -1}) puts the titles in
Rank(t) == CASE t = "a" -> 1 [] t = "b" -> 2 [] OTHER -> 0

RECURSIVE InsertSorted(_, _, _)
InsertSorted(rec, s, dir) ==
    IF s = <<>> THEN <<rec>>
    ELSE IF (dir = "asc" /\ Rank(rec["title"]) < Rank(Head(s)["title"]))
            \/ (dir = "desc" /\ Rank(rec["title"]) > Rank(Head(s)["title"]))
         THEN <<rec>> \o s
         ELSE <<Head(s)>> \o InsertSorted(rec, Tail(s), dir)

RECURSIVE Sorted(_, _)
Sorted(s, dir) ==
    IF dir = "none" \/ s = <<>> THEN s
    ELSE InsertSorted(s[Len(s)], Sorted(SubSeq(s, 1, Len(s) - 1), dir), dir)

Project(rec, p) ==
    IF DOMAIN p = {} THEN rec
    ELSE [k \in (DOMAIN rec) \cap ({"_id"} \cup {x \in DOMAIN p : Truthy(p[x])}) |-> rec[k]]

EngineFind(s, n, req) ==
    LET c == req.cursor
        sorted == Sorted(Select(s, req.query.map), c.sort)
        skipped == SubSeq(sorted, c.skip + 1, Len(sorted))
        limited == IF c.limit > 0 /\ c.limit < Len(skipped)
                   THEN SubSeq(skipped, 1, c.limit) ELSE skipped
    IN  [store |-> s, nextId |-> n,
         raw |-> Arr([i \in DOMAIN limited |-> Obj(Project(limited[i], req.projection.map))])]

EngineFindOne(s, n, req) ==
    LET m == Select(s, req.query.map)
    IN  [store |-> s, nextId |-> n,
         raw |-> IF m = <<>> THEN NullV ELSE Obj(Project(m[1], req.projection.map))]

EngineCount(s, n, req) ==
    [store |-> s, nextId |-> n, raw |-> Num(Len(Select(s, req.query.map)))]

EngineApply(s, n, req) ==
    CASE req.op = "insert" -> EngineInsert(s, n, req)
      [] req.op = "find" -> EngineFind(s, n, req)
      [] req.op = "findOne" -> EngineFindOne(s, n, req)
      [] req.op = "count" -> EngineCount(s, n, req)
      [] req.op = "update" -> EngineUpdate(s, n, req)
      [] req.op = "remove" -> EngineRemove(s, n, req)

(* ------------------------------- frames -------------------------------- *)

InFlight(c) == c.pc \in {"cursor", "await", "resume"}
Quiescent == \A i \in DOMAIN calls : ~InFlight(calls[i])

\* the number of requests handed to the engine so far
Issued == Cardinality({i \in DOMAIN calls : calls[i].reqs # <<>>})

\* a call's frame: its kind, its arguments, the instance's fields when it was made, the
\* requests it has handed to the engine and their place in the engine's queue, where it stands, the engine's raw result, what it
\* returned, the cursor it holds (find), and the kinds of the calls it has overlapped with
Frame(kind, args, this, reqs, pc, ret) ==
    [kind |-> kind, args |-> args, this |-> this, reqs |-> reqs, pc |-> pc,
     raw |-> Undefined, ret |-> ret, cursor |-> Undefined,
     ticket |-> IF reqs = <<>> THEN 0 ELSE Issued + 1,
     overlaps |-> IF pc = "done" THEN {}
                  ELSE {calls[i].kind : i \in {j \in DOMAIN calls : InFlight(calls[j])}}]

\* a new call starts: the calls in flight now overlap with it
Push(frame) ==
    calls' = Append([i \in DOMAIN calls |->
                        IF InFlight(calls[i]) /\ frame.pc # "done"
                        THEN [calls[i] EXCEPT !.overlaps = @ \cup {frame.kind}]
                        ELSE calls[i]],
                    frame)

(* ------------------------------- actions ------------------------------- *)

Init ==
    /\ defaults \in {BaseDefaults, SubclassDefaults}
    /\ store = <<>>
    /\ nextId = 0
    /\ inst \in {"title" :> t : t \in Titles}
    /\ calls = <<>>
    /\ used = Undefined

\* the application changes a field of the instance
Mutate ==
    /\ \E t \in Titles : inst' = Put(inst, "title", t)
    /\ inst' # inst
    /\ UNCHANGED <<defaults, store, nextId, calls, used>>

SaveStart ==
    /\ Len(calls) < MaxCalls
    /\ Push(Frame("save", <<>>, inst, <<SaveRequest(defaults, inst)>>, "await", Undefined))
    /\ UNCHANGED <<defaults, store, nextId, inst, used>>

RemoveStart ==
    /\ Len(calls) < MaxCalls
    /\ LET reqs == RemoveRequests(defaults, inst)
       IN  IF reqs = <<>>
           THEN Push(Frame("remove", <<>>, inst, reqs, "done", Num(0)))
           ELSE Push(Frame("remove", <<>>, inst, reqs, "await", Undefined))
    /\ UNCHANGED <<defaults, store, nextId, inst, used>>

DuplicateStart ==
    /\ Len(calls) < MaxCalls
    /\ Push(Frame("duplicate", <<>>, inst,
                  <<ModelInsert(defaults, Obj(DuplicateValues(inst)))>>, "await", Undefined))
    /\ UNCHANGED <<defaults, store, nextId, inst, used>>

\* the storage engine carries out the oldest pending request (its executor is a queue)
EngineExec ==
    \E i \in DOMAIN calls :
        /\ calls[i].pc = "await"
        /\ \A j \in DOMAIN calls : calls[j].pc = "await" => calls[j].ticket >= calls[i].ticket
        /\ LET r == EngineApply(store, nextId, calls[i].reqs[Len(calls[i].reqs)])
           IN  /\ store' = r.store
               /\ nextId' = r.nextId
               /\ calls' = [calls EXCEPT ![i].pc = "resume", ![i].raw = r.raw]
        /\ UNCHANGED <<defaults, inst, used>>

\* the awaiting call continues with the engine's result
Resume ==
    \E i \in DOMAIN calls :
        /\ calls[i].pc = "resume"
        /\ LET c == calls[i]
               result == StaticResult(c.raw)
           IN  IF c.raw.type = "error"
               THEN /\ calls' = [calls EXCEPT ![i].pc = "rejected"]
                    /\ inst' = inst
               ELSE CASE c.kind = "save" ->
                           /\ inst' = SaveAssign(inst, result)
                           /\ calls' = [calls EXCEPT ![i].pc = "done", ![i].ret = ThisRef]
                      [] c.kind = "Model.find" ->
                           /\ inst' = inst
                           /\ calls' = [calls EXCEPT ![i].pc = "done",
                                                     ![i].ret = CursorExecResult(c.raw)]
                      [] OTHER ->
                           /\ inst' = inst
                           /\ calls' = [calls EXCEPT ![i].pc = "done",
                                                     ![i].ret = StaticResult(c.raw)]
        /\ UNCHANGED <<defaults, store, nextId, used>>

Next ==
    \/ Mutate
    \/ SaveStart
    \/ RemoveStart
    \/ DuplicateStart
    \/ EngineExec
    \/ Resume

Spec == Init /\ [][Next]_vars

(* ------------------------- the static operations ----------------------- *)

Queries == {Undefined, Obj("title" :> "a"), Obj("archived" :> "yes")}
Projections == {Undefined, Obj("title" :> "1")}
OptionsGiven ==
    {Undefined, Obj("multi" :> "false"), Obj("returnUpdatedDocs" :> "true"),
     Obj(("multi" :> "false") @@ ("returnUpdatedDocs" :> "true"))}
InsertValues ==
    {Obj("title" :> "a"), Obj(("title" :> "b") @@ ("archived" :> "yes")),
     Arr(<<Obj("title" :> "a"), Obj("title" :> "a")>>)}
UpdateValues == {SetOp("title" :> "b")}

Args(query, projection, values, options) ==
    [query |-> query, projection |-> projection, values |-> values, options |-> options]

StaticRoom == Len(calls) < MaxStaticCalls

\* Model.find(query, projection): the cursor is returned, nothing is awaited
FindStart ==
    /\ StaticRoom
    /\ \E q \in Queries, p \in Projections :
          Push([Frame("Model.find", Args(q, p, Undefined, Undefined), inst, <<>>, "cursor", Undefined)
                EXCEPT !.cursor = ModelFind(defaults, q, p)])
    /\ UNCHANGED <<defaults, store, nextId, inst, used>>

\* cursor.sort / cursor.skip / cursor.limit, before exec
CursorChain ==
    /\ \E i \in DOMAIN calls :
          /\ calls[i].pc = "cursor"
          /\ \E c \in {[calls[i].cursor.cursor EXCEPT !.sort = d] : d \in {"asc", "desc"}}
                      \cup {[calls[i].cursor.cursor EXCEPT !.skip = 1],
                            [calls[i].cursor.cursor EXCEPT !.limit = 1]} :
                /\ c # calls[i].cursor.cursor
                /\ calls' = [calls EXCEPT ![i].cursor.cursor = c]
    /\ UNCHANGED <<defaults, store, nextId, inst, used>>

\* cursor.exec(), or awaiting the cursor
CursorExec ==
    /\ \E i \in DOMAIN calls :
          /\ calls[i].pc = "cursor"
          /\ calls' = [calls EXCEPT ![i].pc = "await", ![i].reqs = <<calls[i].cursor>>,
                                    ![i].ticket = Issued + 1]
    /\ UNCHANGED <<defaults, store, nextId, inst, used>>

FindOneStart ==
    /\ StaticRoom
    /\ \E q \in Queries, p \in Projections :
          Push(Frame("Model.findOne", Args(q, p, Undefined, Undefined), inst,
                     <<ModelFindOne(defaults, q, p)>>, "await", Undefined))
    /\ UNCHANGED <<defaults, store, nextId, inst, used>>

CountStart ==
    /\ StaticRoom
    /\ \E q \in Queries :
          Push(Frame("Model.count", Args(q, Undefined, Undefined, Undefined), inst,
                     <<ModelCount(defaults, q)>>, "await", Undefined))
    /\ UNCHANGED <<defaults, store, nextId, inst, used>>

InsertStart ==
    /\ StaticRoom
    /\ \E v \in InsertValues :
          Push(Frame("Model.insert", Args(Undefined, Undefined, v, Undefined), inst,
                     <<ModelInsert(defaults, v)>>, "await", Undefined))
    /\ UNCHANGED <<defaults, store, nextId, inst, used>>

UpdateStart ==
    /\ StaticRoom
    /\ \E q \in Queries, v \in UpdateValues, o \in OptionsGiven :
          Push(Frame("Model.update", Args(q, Undefined, v, o), inst,
                     <<ModelUpdate(defaults, q, v, o)>>, "await", Undefined))
    /\ UNCHANGED <<defaults, store, nextId, inst, used>>

StaticRemoveStart ==
    /\ StaticRoom
    /\ \E q \in Queries, o \in OptionsGiven :
          Push(Frame("Model.remove", Args(q, Undefined, Undefined, o), inst,
                     <<ModelRemove(defaults, q, o)>>, "await", Undefined))
    /\ UNCHANGED <<defaults, store, nextId, inst, used>>

\* a collection that earlier inserts have filled
StoredBefore ==
    <<("_id" :> "1") @@ ("title" :> "a") @@ ("archived" :> "no"),
      ("_id" :> "2") @@ ("title" :> "a") @@ ("archived" :> "no"),
      ("_id" :> "3") @@ ("title" :> "b") @@ ("archived" :> "yes")>>

InitStatic ==
    /\ defaults \in {BaseDefaults, SubclassDefaults}
    /\ store = StoredBefore
    /\ nextId = Len(StoredBefore)
    /\ inst = "title" :> "a"
    /\ calls = <<>>
    /\ used = Undefined

NextStatic ==
    \/ FindStart
    \/ CursorChain
    \/ CursorExec
    \/ FindOneStart
    \/ CountStart
    \/ InsertStart
    \/ UpdateStart
    \/ StaticRemoveStart
    \/ EngineExec
    \/ Resume

SpecStatic == InitStatic /\ [][NextStatic]_vars

(* --------------------------------- use --------------------------------- *)

\* what a caller may pass to use: a value that is no function, or a constructor whose
\* objects are instances of Extension or not, have an apply() or not, and whose apply()
\* returns true or false
Ext(callable, isExtension, hasApply, applies) ==
    [type |-> "ext", callable |-> callable, isExtension |-> isExtension,
     hasApply |-> hasApply, applies |-> applies]

NotAFunction == Ext(FALSE, FALSE, FALSE, FALSE)
Applying == Ext(TRUE, TRUE, TRUE, TRUE)
Failing == Ext(TRUE, TRUE, TRUE, FALSE)
Plain == Ext(TRUE, FALSE, FALSE, FALSE)
Duck == Ext(TRUE, FALSE, TRUE, TRUE)

Extensions == {NotAFunction, Applying, Failing, Plain, Duck}

\* new extension(this)
Construct(e) ==
    [type |-> "object", classes |-> IF e.isExtension THEN {"Extension"} ELSE {},
     hasApply |-> e.hasApply, applies |-> e.applies]

\* !v : an object is truthy, so its negation is the boolean false
JsNot(v) == [type |-> "boolean", value |-> ~(v.type = "object")]

\* v instanceof cls : never true of a primitive
InstanceOf(v, cls) == v.type = "object" /\ cls \in v.classes

Outcome(value, events) == [value |-> value, events |-> events]

\* Model.use with one extension, the pos-th of the call
UseOne(e, pos) ==
    IF ~e.callable THEN Outcome("false", <<>>)
    ELSE LET extension == Construct(e)
             made == <<[ev |-> "construct", pos |-> pos]>>
         IN  IF InstanceOf(JsNot(extension), "Extension")
             THEN Outcome("false", made)
             ELSE IF extension.hasApply
                  THEN Outcome(IF extension.applies THEN "true" ELSE "false",
                               made \o <<[ev |-> "apply", pos |-> pos]>>)
                  ELSE Outcome("throw", made)

RECURSIVE UseReduce(_, _, _)
\* extension.reduce((result, extension) => result && this.use(extension), true)
UseReduce(exts, i, acc) ==
    IF i > Len(exts) \/ acc.value = "throw" THEN acc
    ELSE UseReduce(exts, i + 1,
                   IF acc.value = "true"
                   THEN LET r == UseOne(exts[i], i)
                        IN  Outcome(r.value, acc.events \o r.events)
                   ELSE acc)

\* Model.use
ModelUse(arg) ==
    IF arg.type = "array"
    THEN UseReduce(arg.items, 1, Outcome("true", <<>>))
    ELSE UseOne(arg, 1)

RECURSIVE SeqsUpTo(_, _)
SeqsUpTo(S, n) ==
    IF n = 0 THEN {<<>>}
    ELSE LET shorter == SeqsUpTo(S, n - 1)
         IN  shorter \cup {Append(s, x) : s \in {t \in shorter : Len(t) = n - 1}, x \in S}

UseArgs == Extensions \cup {Arr(s) : s \in SeqsUpTo(Extensions, MaxExts)}

Use ==
    /\ \E arg \in UseArgs :
          used' = [arg |-> arg, outcome |-> ModelUse(arg)]
    /\ UNCHANGED <<defaults, store, nextId, inst, calls>>

SpecUse == Init /\ [][Use]_vars

(* ------------------------------ properties ----------------------------- *)

Of(kind) == {i \in DOMAIN calls : calls[i].kind = kind}

\* frame i is created, carried out by the engine, or resumed in this step
Started(i) == i \notin DOMAIN calls /\ i \in DOMAIN calls'
Executed(i) == i \in DOMAIN calls /\ calls[i].pc = "await" /\ calls'[i].pc = "resume"
Resumed(i) == i \in DOMAIN calls /\ calls[i].pc = "resume" /\ calls'[i].pc = "done"

Carries(this, rec) == \A k \in DOMAIN rec : k \in DOMAIN this /\ this[k] = rec[k]

C1_SaveFrames ==
    \A i \in Of("save") :
        LET c == calls[i]
        IN  /\ Len(c.reqs) = 1
            /\ c.pc # "rejected"
            /\ IF HasId(c.this)
               THEN /\ c.reqs[1].op = "update"
                    /\ c.reqs[1].query = Obj("_id" :> c.this["_id"])
                    /\ c.reqs[1].values = SetOp(c.this)
               ELSE /\ c.reqs[1].op = "insert"
                    /\ c.reqs[1].values.type = "object"
                    /\ Carries(c.reqs[1].values.map, c.this)
            /\ c.pc = "done" => c.ret = ThisRef

C1_SaveResolves ==
    \A i \in Of("save") :
        Resumed(i) =>
            LET c == calls[i]
            IN  IF HasId(c.this)
                THEN /\ (c.raw.type = "array" /\ Len(c.raw.items) > 0) =>
                            /\ c.raw.items[1].map["_id"] = c.this["_id"]
                            /\ Carries(inst', c.raw.items[1].map)
                     /\ c.overlaps = {} => (HasId(inst') /\ inst'["_id"] = c.this["_id"])
                ELSE /\ c.raw.type = "object"
                     /\ HasId(c.raw.map)
                     /\ Carries(inst', c.raw.map)

C5_RemoveFrames ==
    \A i \in Of("remove") :
        LET c == calls[i]
        IN  IF ~HasId(c.this)
            THEN c.reqs = <<>> /\ c.pc = "done" /\ c.ret = Num(0)
            ELSE /\ Len(c.reqs) = 1
                 /\ c.reqs[1].op = "remove"
                 /\ c.reqs[1].query = Obj("_id" :> c.this["_id"])
                 /\ c.reqs[1].options.map["multi"] = "false"
                 /\ c.pc = "done" => (c.raw.type = "number" /\ c.ret = c.raw)

C5_RemoveSteps ==
    \A i \in DOMAIN calls' :
        calls'[i].kind = "remove" =>
            /\ Started(i) => store' = store
            /\ Executed(i) =>
                  /\ Len(store) - Len(store') \in {0, 1}
                  /\ calls'[i].raw = Num(Len(store) - Len(store'))
                  /\ \A n \in DOMAIN store :
                        store[n]["_id"] # calls[i].this["_id"] =>
                            \E m \in DOMAIN store' : store'[m] = store[n]

\* C5: remove() on an instance without an identifier returns 0, hands the engine nothing
\* and leaves the store as it is; with an identifier it hands the engine one removal keyed
\* on the identifier with multi false, which deletes at most one record and no record
\* with another identifier, and it returns the engine's count.
C5_Remove == []C5_RemoveFrames /\ [][C5_RemoveSteps]_vars

C5_Witness ==
    \E i, j \in Of("remove") :
        /\ calls[i].pc = "done" /\ calls[i].reqs = <<>> /\ calls[i].ret = Num(0)
        /\ calls[j].pc = "done" /\ calls[j].ret = Num(1)

C6_DuplicateFrames ==
    \A i \in Of("duplicate") :
        LET c == calls[i]
            others == Without(c.this, "_id")
        IN  /\ Len(c.reqs) = 1
            /\ c.reqs[1].op = "insert"
            /\ c.reqs[1].values.type = "object"
            /\ "_id" \notin DOMAIN c.reqs[1].values.map
            /\ Carries(c.reqs[1].values.map, others)
            /\ c.pc # "rejected"
            /\ c.pc = "done" =>
                  /\ c.ret.type = "instance"
                  /\ HasId(c.ret.map)
                  /\ HasId(c.this) => c.ret.map["_id"] # c.this["_id"]
                  /\ Carries(c.ret.map, others)

C6_DuplicateSteps ==
    \A i \in DOMAIN calls' :
        (calls'[i].kind = "duplicate" /\ (Started(i) \/ Executed(i) \/ Resumed(i))) =>
            /\ inst' = inst
            /\ Len(store') >= Len(store)
            /\ SubSeq(store', 1, Len(store)) = store

\* C6: duplicate() hands the engine an insert of the instance's fields without the
\* identifier and returns a new instance with an identifier other than the source's and
\* with the source's other fields as they were at the call; the source instance and every
\* record already stored, the source's included, stay as they are.
C6_Duplicate == []C6_DuplicateFrames /\ [][C6_DuplicateSteps]_vars

C6_Witness ==
    \E i \in Of("duplicate") :
        /\ calls[i].pc = "done"
        /\ HasId(calls[i].this)
        /\ calls[i].ret.map["_id"] # calls[i].this["_id"]
        /\ \E n, m \in DOMAIN store :
              /\ store[n]["_id"] = calls[i].this["_id"]
              /\ store[m]["_id"] = calls[i].ret.map["_id"]

\* C9: whenever no call is in flight, the instance carries an identifier exactly when the
\* store holds a record with that identifier.
C9_IdentifierIffStored ==
    Quiescent =>
        (HasId(inst) <=> ("_id" \in DOMAIN inst /\ inst["_id"] \in Ids(store)))

InsertingSaves == {i \in Of("save") : calls[i].reqs[1].op = "insert"}

\* C10: whatever the interleaving of the save() calls, at most one record is inserted
\* for the instance.
C10_OneInsert ==
    Cardinality({i \in InsertingSaves : calls[i].pc \in {"resume", "done"}}) <= 1

\* C10 as amended: save() calls that do not overlap one another insert at most one
\* record; every save() made while the instance has no identifier yet hands the engine
\* its own insert, so two overlapping such calls insert two records; once all calls have
\* resolved the instance carries the identifier of one of the inserted records.
C10_InsertPerTransientSave ==
    /\ (\A i \in Of("save") : "save" \notin calls[i].overlaps) =>
            Cardinality(InsertingSaves) <= 1
    /\ \A i \in Of("save") : i \in InsertingSaves <=> ~HasId(calls[i].this)
    /\ \A i, j \in InsertingSaves :
            (i # j /\ calls[i].pc = "done" /\ calls[j].pc = "done") =>
                calls[i].raw.map["_id"] # calls[j].raw.map["_id"]
    /\ (Quiescent /\ InsertingSaves # {}) =>
            /\ HasId(inst)
            /\ inst["_id"] \in {calls[i].raw.map["_id"] : i \in InsertingSaves}

C10_Witness ==
    \E i, j \in InsertingSaves :
        /\ i # j
        /\ calls[i].pc = "done" /\ calls[j].pc = "done"
        /\ calls[i].raw.map["_id"] \in Ids(store)
        /\ calls[j].raw.map["_id"] \in Ids(store)
        /\ Quiescent

(* the static operations *)

\* the type's default query with the caller's query laid over it
Merged(d, q) ==
    LET o == IF q.type = "object" THEN q.map ELSE EmptyMap
    IN  Obj([k \in (DOMAIN d) \cup (DOMAIN o) |-> IF k \in DOMAIN o THEN o[k] ELSE d[k]])

AsGiven(q) == IF q.type = "object" THEN q ELSE Obj(EmptyMap)

\* the query a frame has bound for the engine or handed to it
QueryOf(c) == IF c.reqs # <<>> THEN c.reqs[1].query ELSE c.cursor.query

Querying == {"Model.find", "Model.findOne", "Model.count", "Model.update", "Model.remove"}

\* C2: every query a static operation hands to the engine is the type's default query
\* merged with the caller's.
C2_AlwaysMerged ==
    \A i \in DOMAIN calls :
        calls[i].kind \in Querying =>
            QueryOf(calls[i]) = Merged(defaults.query, calls[i].args.query)

\* C2 as amended: find, findOne and count hand the engine the type's default query
\* merged with the caller's; update and remove hand it the caller's query as given, and
\* merge only their options with {multi: true}.
C2_MergedWhereUsed ==
    \A i \in DOMAIN calls :
        LET c == calls[i]
        IN  /\ c.kind \in {"Model.find", "Model.findOne", "Model.count"} =>
                  QueryOf(c) = Merged(defaults.query, c.args.query)
            /\ c.kind \in {"Model.update", "Model.remove"} =>
                  /\ QueryOf(c) = AsGiven(c.args.query)
                  /\ c.reqs[1].options = Merged("multi" :> "true", c.args.options)

C2_Witness ==
    \E i \in Of("Model.update") :
        /\ defaults = SubclassDefaults
        /\ calls[i].args.query = Undefined
        /\ QueryOf(calls[i]) # Merged(defaults.query, calls[i].args.query)
        /\ calls[i].pc = "done"
        /\ calls[i].raw = Num(Len(store))

C7_FindFrames ==
    \A i \in Of("Model.find") :
        LET c == calls[i]
        IN  /\ c.pc = "cursor" => (c.reqs = <<>> /\ c.raw = Undefined)
            /\ c.reqs # <<>> => (c.reqs = <<c.cursor>> /\ c.pc # "cursor")
            /\ c.pc = "done" =>
                  /\ c.raw.type = "array"
                  /\ c.ret.type = "array"
                  /\ Len(c.ret.items) = Len(c.raw.items)
                  /\ \A n \in DOMAIN c.raw.items :
                        /\ c.raw.items[n].type = "object"
                        /\ c.ret.items[n] = Instance(c.raw.items[n].map)

C7_FindSteps ==
    \A i \in Of("Model.find")' :
        /\ Started(i) => (calls'[i].pc = "cursor" /\ store' = store /\ nextId' = nextId)
        /\ (i \in DOMAIN calls /\ calls[i].pc = "cursor") =>
              (calls'[i].raw = Undefined /\ calls'[i].pc \in {"cursor", "await"})

\* C7: find() returns a cursor at once and nothing is executed by the engine for it until
\* the cursor's exec is triggered; the request then handed over is the cursor as chained
\* (sort, skip, limit), and what exec delivers is the engine's sequence of records, each
\* turned into a model instance exactly once.
C7_Find == []C7_FindFrames /\ [][C7_FindSteps]_vars

C7_Witness ==
    \E i \in Of("Model.find") :
        /\ calls[i].pc = "done"
        /\ calls[i].cursor.cursor.sort = "desc"
        /\ calls[i].cursor.cursor.skip = 1
        /\ Len(calls[i].ret.items) >= 1
        /\ calls[i].ret.items[1].type = "instance"

GivesMulti(o) == o.type = "object" /\ "multi" \in DOMAIN o.map

C8_Options ==
    \A i \in Of("Model.update") \cup Of("Model.remove") :
        LET o == calls[i].args.options
            handed == calls[i].reqs[1].options
        IN  /\ handed.type = "object"
            /\ "multi" \in DOMAIN handed.map
            /\ handed.map["multi"] = IF GivesMulti(o) THEN o.map["multi"] ELSE "true"
            /\ o.type = "object" => Carries(handed.map, o.map)

C8_Effect ==
    \A i \in DOMAIN calls :
        Executed(i) =>
            LET c == calls[i]
                q == c.reqs[1].query.map
                matching == Select(store, q)
                single == GivesMulti(c.args.options) /\ c.args.options.map["multi"] = "false"
            IN  /\ c.kind = "Model.remove" =>
                      /\ calls'[i].raw = Num(Len(store) - Len(store'))
                      /\ IF single
                         THEN Len(store) - Len(store') = IF matching = <<>> THEN 0 ELSE 1
                         ELSE Select(store', q) = <<>> /\ Len(store') = Len(store) - Len(matching)
                /\ c.kind = "Model.update" =>
                      /\ Len(store') = Len(store)
                      /\ LET changed == {n \in DOMAIN store : store'[n] # store[n]}
                         IN  IF single
                             THEN Cardinality(changed) <= 1
                             ELSE \A n \in DOMAIN store :
                                    Matches(store[n], q) => Carries(store'[n], c.reqs[1].values.map)

\* C8: update and remove hand the engine multi = true unless the caller's options give
\* multi, in which case the caller's value is handed over; the caller's other options are
\* handed over too; a remove without multi deletes every matching record, a remove with
\* multi false at most one, and likewise for the records an update changes.
C8_MultiDefault == []C8_Options /\ [][C8_Effect]_vars

C8_Witness ==
    \E i \in Of("Model.remove") :
        /\ calls[i].args.options = Obj("returnUpdatedDocs" :> "true")
        /\ calls[i].reqs[1].options.map["returnUpdatedDocs"] = "true"
        /\ calls[i].pc = "done"
        /\ calls[i].ret.type = "number"
        /\ calls[i].ret.n >= 2

(* use *)

Positions(ev) == {used.outcome.events[n].pos : n \in {m \in DOMAIN used.outcome.events :
                                                        used.outcome.events[m].ev = ev}}

Conforms(e) == e.callable /\ e.isExtension

\* C3: use() with a sequence constructs every constructible extension of it, whatever
\* the earlier ones yielded, and yields the conjunction of the individual results (stated
\* for the sequences none of whose members raises when used alone).
C3_AllAttempted ==
    (used # Undefined /\ used.arg.type = "array") =>
        LET exts == used.arg.items
            alone(i) == UseOne(exts[i], i).value
        IN  (\A i \in DOMAIN exts : alone(i) # "throw") =>
                /\ \A i \in DOMAIN exts : exts[i].callable => i \in Positions("construct")
                /\ used.outcome.value =
                      IF \A i \in DOMAIN exts : alone(i) = "true" THEN "true" ELSE "false"

\* C4: use() with one extension yields false, raises nothing and calls no apply() when
\* the argument is not constructible or what it constructs is no Extension; otherwise it
\* calls apply() and yields its result.
C4_InvalidYieldsFalse ==
    (used # Undefined /\ used.arg.type = "ext") =>
        IF Conforms(used.arg)
        THEN /\ Positions("apply") = {1}
             /\ used.outcome.value = IF used.arg.applies THEN "true" ELSE "false"
        ELSE /\ Positions("apply") = {}
             /\ used.outcome.value = "false"

====
